---- MODULE Spec2Model ----
(***************************************************************************)
(* Model of src/client/web/app/split_tunneling.cordova.ts: the data-access *)
(* functions getInstalledApps / setAllowedApps over the native bridge and  *)
(* the SplitTunnelingView component (app list, selection set, search       *)
(* query, loading flag, debounce timer).                                   *)
(*                                                                         *)
(* Strings are tuples of one-character strings.  A JavaScript Set is a     *)
(* duplicate-free tuple in insertion order, which is also the order in     *)
(* which [...set] lists it.                                                *)
(***************************************************************************)
EXTENDS Integers, Sequences, FiniteSets, TLC

VARIABLES
    initialSelectedApps,  \* @property initialSelectedApps
    apps,                 \* @state apps
    selectedApps,         \* @state selectedApps (insertion-ordered Set)
    searchQuery,          \* @state searchQuery
    loading,              \* @state loading
    applyDebounceTimer,   \* the timer handle field, 0 for null
    pc,                   \* position of connectedCallback
    timers,               \* timers pending in the JavaScript runtime
    inflight,             \* timer callbacks suspended at `await setAllowedApps`
    calls,                \* arguments of the setAllowedApps calls, in issue order
    events,               \* AllowedAppsChanged events, in dispatch order
    consoleErrors,        \* number of console.error calls
    loadReply,            \* history: what the bridge answered to getInstalledApps
    settleLog,            \* history: the calls that settled, in settle order
    nToggles,             \* history: number of toggleApp calls
    nBursts,              \* history: number of toggles made with no timer pending
    lastToggle            \* history: the latest toggleApp call and the selection before it

vars == <<initialSelectedApps, apps, selectedApps, searchQuery, loading,
          applyDebounceTimer, pc, timers, inflight, calls, events,
          consoleErrors, loadReply, settleLog, nToggles, nBursts, lastToggle>>

----------------------------------------------------------------------------
(* Bounds *)

MaxApps == 2
MaxInitial == 1
MaxQueryLen == 1
MaxToggles == 2

(* The debounce delay *)
DebounceMs == 500

----------------------------------------------------------------------------
(* Input universe *)

App1 == [packageName |-> <<"a">>, label |-> <<"C", "b">>]
App2 == [packageName |-> <<"c">>, label |-> <<"c", "B">>]
App3 == [packageName |-> <<"b">>, label |-> <<"A">>]
Universe == {App1, App2, App3}
ForeignPackage == <<"z">>
InitialPool == {App1.packageName, ForeignPackage}
QueryAlphabet == {"A"}

SeqsUpTo(S, n) == UNION {[1..k -> S] : k \in 0..n}

SetOf(s) == {s[i] : i \in DOMAIN s}

NoDup(s) == \A i, j \in DOMAIN s : i # j => s[i] # s[j]

InstalledLists == {l \in SeqsUpTo(Universe, MaxApps) : NoDup(l)}
InitialLists == SeqsUpTo(InitialPool, MaxInitial)
Queries == SeqsUpTo(QueryAlphabet, MaxQueryLen)

NativeReplies ==
    {[kind |-> "reject", list |-> <<>>], [kind |-> "unparsable", list |-> <<>>]}
    \cup {[kind |-> "json", list |-> l] : l \in InstalledLists}

----------------------------------------------------------------------------
(* String helpers of the JavaScript runtime *)

Min(S) == CHOOSE x \in S : \A y \in S : x <= y

LowerChar(c) ==
    CASE c = "A" -> "a"
      [] c = "B" -> "b"
      [] c = "C" -> "c"
      [] OTHER -> c

IsUpper(c) == c \in {"A", "B", "C"}

toLowerCase(s) == [i \in DOMAIN s |-> LowerChar(s[i])]

includes(s, q) ==
    \E i \in 0..(Len(s) - Len(q)) : SubSeq(s, i + 1, i + Len(q)) = q

Rank(c) ==
    CASE LowerChar(c) = "a" -> 1
      [] LowerChar(c) = "b" -> 2
      [] LowerChar(c) = "c" -> 3
      [] OTHER -> 4

\* Collation order: letters first (shorter prefix first), then, on a tie,
\* the first position that differs in case, lower case first.
localeCompare(x, y) ==
    LET n == IF Len(x) < Len(y) THEN Len(x) ELSE Len(y)
        prim == {i \in 1..n : Rank(x[i]) # Rank(y[i])}
        tert == {i \in 1..n : x[i] # y[i]}
    IN  IF prim # {}
        THEN IF Rank(x[Min(prim)]) < Rank(y[Min(prim)]) THEN -1 ELSE 1
        ELSE IF Len(x) # Len(y)
        THEN IF Len(x) < Len(y) THEN -1 ELSE 1
        ELSE IF tert # {}
        THEN IF IsUpper(y[Min(tert)]) THEN -1 ELSE 1
        ELSE 0

Front(s) == SubSeq(s, 1, Len(s) - 1)
Last(s) == s[Len(s)]

\* Array.prototype.sort with the label comparator: a stable sort.
InsertByLabel(s, a) ==
    LET k == Cardinality({i \in DOMAIN s : localeCompare(s[i].label, a.label) <= 0})
    IN  SubSeq(s, 1, k) \o <<a>> \o SubSeq(s, k + 1, Len(s))

RECURSIVE sortByLabel(_)
sortByLabel(s) ==
    IF s = <<>> THEN <<>> ELSE InsertByLabel(sortByLabel(Front(s)), Last(s))

\* new Set(iterable): first occurrences, in order.
RECURSIVE NewSet(_)
NewSet(s) ==
    IF s = <<>> THEN <<>>
    ELSE LET r == NewSet(Front(s))
         IN  IF Last(s) \in SetOf(r) THEN r ELSE Append(r, Last(s))

RECURSIVE filter(_, _, _)
filter(s, q, i) ==
    IF i > Len(s) THEN <<>>
    ELSE LET a == s[i]
             rest == filter(s, q, i + 1)
         IN  IF includes(toLowerCase(a.label), q)
                \/ includes(toLowerCase(a.packageName), q)
             THEN <<a>> \o rest
             ELSE rest

----------------------------------------------------------------------------
(* Data access *)

\* getInstalledApps: pluginExec may reject and JSON.parse may throw.
getInstalledApps(reply) ==
    IF reply.kind = "json"
    THEN [threw |-> FALSE, value |-> reply.list]
    ELSE [threw |-> TRUE, value |-> <<>>]

----------------------------------------------------------------------------
(* SplitTunnelingView *)

Init ==
    /\ initialSelectedApps \in InitialLists
    /\ apps = <<>>
    /\ selectedApps = <<>>
    /\ searchQuery = <<>>
    /\ loading = TRUE
    /\ applyDebounceTimer = 0
    /\ pc = "constructed"
    /\ timers = {}
    /\ inflight = {}
    /\ calls = <<>>
    /\ events = <<>>
    /\ consoleErrors = 0
    /\ loadReply = [kind |-> "none", list |-> <<>>]
    /\ settleLog = <<>>
    /\ nToggles = 0
    /\ nBursts = 0
    /\ lastToggle = [pkg |-> <<>>, before |-> <<>>]

\* Mutation: the query is not lower-cased.
filteredApps_CaseSensitive(as, sq) ==
    IF sq # <<>> THEN filter(as, sq, 1) ELSE as

filteredApps(as, sq) ==
    LET query == toLowerCase(sq)
    IN  IF query # <<>> THEN filter(as, query, 1) ELSE as

render ==
    IF loading
    THEN [view |-> "loading", items |-> <<>>]
    ELSE [view |-> "list", items |-> filteredApps(apps, searchQuery)]

\* Mutation: selected packages are listed even when they are not installed.
Clickable_IncludesSelected ==
    {render.items[i].packageName : i \in DOMAIN render.items}
    \cup (IF loading THEN {} ELSE SetOf(selectedApps))

\* The packages whose list item (and checkbox) is on screen.
Clickable == {render.items[i].packageName : i \in DOMAIN render.items}

\* Mutation: connecting pushes the initial selection through applyChanges.
Connect_AppliesInitial ==
    /\ pc = "constructed"
    /\ selectedApps' = NewSet(initialSelectedApps)
    /\ pc' = "loading"
    /\ timers' = timers \cup {[id |-> MaxToggles + 1, delay |-> DebounceMs]}
    /\ applyDebounceTimer' = MaxToggles + 1
    /\ UNCHANGED <<initialSelectedApps, apps, searchQuery, loading,
                   inflight, calls, events, consoleErrors, loadReply,
                   settleLog, nToggles, nBursts, lastToggle>>

\* connectedCallback up to its await.
Connect ==
    /\ pc = "constructed"
    /\ selectedApps' = NewSet(initialSelectedApps)
    /\ pc' = "loading"
    /\ UNCHANGED <<initialSelectedApps, apps, searchQuery, loading,
                   applyDebounceTimer, timers, inflight, calls, events,
                   consoleErrors, loadReply, settleLog, nToggles, nBursts,
                   lastToggle>>

\* Mutation: the error path returns before the loading flag is cleared.
LoadSettle_StuckLoading(reply) ==
    /\ pc = "loading"
    /\ LET r == getInstalledApps(reply)
       IN  IF r.threw
           THEN /\ apps' = <<>>
                /\ consoleErrors' = consoleErrors + 1
                /\ loading' = loading
           ELSE /\ apps' = sortByLabel(r.value)
                /\ consoleErrors' = consoleErrors
                /\ loading' = FALSE
    /\ pc' = "ready"
    /\ loadReply' = reply
    /\ UNCHANGED <<initialSelectedApps, selectedApps, searchQuery,
                   applyDebounceTimer, timers, inflight, calls, events,
                   settleLog, nToggles, nBursts, lastToggle>>

\* connectedCallback from the settling of getInstalledApps to its end.
LoadSettle(reply) ==
    /\ pc = "loading"
    /\ LET r == getInstalledApps(reply)
       IN  IF r.threw
           THEN /\ apps' = <<>>
                /\ consoleErrors' = consoleErrors + 1
           ELSE /\ apps' = sortByLabel(r.value)
                /\ consoleErrors' = consoleErrors
    /\ loading' = FALSE
    /\ pc' = "ready"
    /\ loadReply' = reply
    /\ UNCHANGED <<initialSelectedApps, selectedApps, searchQuery,
                   applyDebounceTimer, timers, inflight, calls, events,
                   settleLog, nToggles, nBursts, lastToggle>>

onSearchInput(q) ==
    /\ render.view = "list"
    /\ q # searchQuery
    /\ searchQuery' = q
    /\ UNCHANGED <<initialSelectedApps, apps, selectedApps, loading,
                   applyDebounceTimer, pc, timers, inflight, calls, events,
                   consoleErrors, loadReply, settleLog, nToggles, nBursts,
                   lastToggle>>

\* Mutation: a selected package is never removed.
toggle_AddOnly(sel, p) ==
    IF p \in SetOf(sel) THEN sel ELSE Append(sel, p)

\* The Set that toggleApp builds.
toggle(sel, p) ==
    IF p \in SetOf(sel)
    THEN SelectSeq(sel, LAMBDA x : x # p)
    ELSE Append(sel, p)

\* Mutation: the pending timer is not cancelled.
clearTimeout_Noop(ts, id) == ts

clearTimeout(ts, id) == {t \in ts : t.id # id}

setTimeout(ts, id, ms) == ts \cup {[id |-> id, delay |-> ms]}

\* Mutation: applyChanges is called only when a package is added.
toggleApp_NoApplyOnDelete(p) ==
    /\ p \in Clickable
    /\ nToggles < MaxToggles
    /\ selectedApps' = toggle(selectedApps, p)
    /\ IF p \in SetOf(selectedApps)
       THEN UNCHANGED <<timers, applyDebounceTimer, nBursts>>
       ELSE /\ timers' = setTimeout(IF applyDebounceTimer # 0
                                    THEN clearTimeout(timers, applyDebounceTimer)
                                    ELSE timers, nToggles + 1, DebounceMs)
            /\ applyDebounceTimer' = nToggles + 1
            /\ nBursts' = IF timers = {} THEN nBursts + 1 ELSE nBursts
    /\ nToggles' = nToggles + 1
    /\ lastToggle' = [pkg |-> p, before |-> selectedApps]
    /\ UNCHANGED <<initialSelectedApps, apps, searchQuery, loading, pc,
                   inflight, calls, events, consoleErrors, loadReply,
                   settleLog>>

\* toggleApp and the applyChanges it ends with.
toggleApp(p) ==
    /\ p \in Clickable
    /\ nToggles < MaxToggles
    /\ selectedApps' = toggle(selectedApps, p)
    /\ LET cleared == IF applyDebounceTimer # 0
                      THEN clearTimeout(timers, applyDebounceTimer)
                      ELSE timers
           id == nToggles + 1
       IN  /\ timers' = setTimeout(cleared, id, DebounceMs)
           /\ applyDebounceTimer' = id
    /\ nToggles' = nToggles + 1
    /\ nBursts' = IF timers = {} THEN nBursts + 1 ELSE nBursts
    /\ lastToggle' = [pkg |-> p, before |-> selectedApps]
    /\ UNCHANGED <<initialSelectedApps, apps, searchQuery, loading, pc,
                   inflight, calls, events, consoleErrors, loadReply,
                   settleLog>>

\* The timer callback up to its await: the call is issued.
TimerFire(t) ==
    /\ t \in timers
    /\ timers' = timers \ {t}
    /\ LET packages == selectedApps
       IN  /\ calls' = Append(calls, packages)
           /\ inflight' = inflight \cup {[call |-> Len(calls) + 1, packages |-> packages]}
    /\ UNCHANGED <<initialSelectedApps, apps, selectedApps, searchQuery,
                   loading, applyDebounceTimer, pc, events, consoleErrors,
                   loadReply, settleLog, nToggles, nBursts, lastToggle>>

\* Mutation: the event detail is read from selectedApps at dispatch time.
CallSettle_RereadsSelection(c, ok) ==
    /\ c \in inflight
    /\ inflight' = inflight \ {c}
    /\ consoleErrors' = IF ok THEN consoleErrors ELSE consoleErrors + 1
    /\ events' = Append(events, [packages |-> selectedApps])
    /\ settleLog' = Append(settleLog, c.call)
    /\ UNCHANGED <<initialSelectedApps, apps, selectedApps, searchQuery,
                   loading, applyDebounceTimer, pc, timers, calls, loadReply,
                   nToggles, nBursts, lastToggle>>

\* Mutation: a failed call restores the selection the view started with.
CallSettle_RollbackOnFailure(c, ok) ==
    /\ c \in inflight
    /\ inflight' = inflight \ {c}
    /\ consoleErrors' = IF ok THEN consoleErrors ELSE consoleErrors + 1
    /\ selectedApps' = IF ok THEN selectedApps ELSE NewSet(initialSelectedApps)
    /\ events' = Append(events, [packages |-> c.packages])
    /\ settleLog' = Append(settleLog, c.call)
    /\ UNCHANGED <<initialSelectedApps, apps, searchQuery,
                   loading, applyDebounceTimer, pc, timers, calls, loadReply,
                   nToggles, nBursts, lastToggle>>

\* Mutation: the event is dispatched inside the try block, after the await.
CallSettle_NoEventOnFailure(c, ok) ==
    /\ c \in inflight
    /\ inflight' = inflight \ {c}
    /\ consoleErrors' = IF ok THEN consoleErrors ELSE consoleErrors + 1
    /\ events' = IF ok THEN Append(events, [packages |-> c.packages]) ELSE events
    /\ settleLog' = Append(settleLog, c.call)
    /\ UNCHANGED <<initialSelectedApps, apps, selectedApps, searchQuery,
                   loading, applyDebounceTimer, pc, timers, calls, loadReply,
                   nToggles, nBursts, lastToggle>>

\* The timer callback from the settling of setAllowedApps to its end.
CallSettle(c, ok) ==
    /\ c \in inflight
    /\ inflight' = inflight \ {c}
    /\ consoleErrors' = IF ok THEN consoleErrors ELSE consoleErrors + 1
    /\ events' = Append(events, [packages |-> c.packages])
    /\ settleLog' = Append(settleLog, c.call)
    /\ UNCHANGED <<initialSelectedApps, apps, selectedApps, searchQuery,
                   loading, applyDebounceTimer, pc, timers, calls, loadReply,
                   nToggles, nBursts, lastToggle>>

Next ==
    \/ Connect
    \/ \E reply \in NativeReplies : LoadSettle(reply)
    \/ \E q \in Queries : onSearchInput(q)
    \/ \E p \in Clickable : toggleApp(p)
    \/ \E t \in timers : TimerFire(t)
    \/ \E c \in inflight, ok \in BOOLEAN : CallSettle(c, ok)

Spec == Init /\ [][Next]_vars

\* Pending timers do expire.
FairSpec == Spec /\ WF_vars(\E t \in timers : TimerFire(t))

TypeOK ==
    /\ loading \in BOOLEAN
    /\ pc \in {"constructed", "loading", "ready"}
    /\ NoDup(selectedApps)
    /\ nToggles \in 0..MaxToggles

----------------------------------------------------------------------------
(* Vocabulary of the properties *)

Pkgs(as) == {as[i].packageName : i \in DOMAIN as}

\* The latest setAllowedApps call carries the current selection.
Persisted == calls # <<>> /\ Last(calls) = selectedApps

Quiescent == timers = {} /\ inflight = {}

InIssueOrder(log) == \A i, j \in DOMAIN log : i < j => log[i] < log[j]

LoadFailed == loadReply.kind \in {"reject", "unparsable"}

CallFailures == consoleErrors - (IF LoadFailed THEN 1 ELSE 0)

\* s contains q, letter case ignored, stated position by position.
ContainsIgnoringCase(s, q) ==
    \E off \in 0..(Len(s) - Len(q)) :
        \A j \in 1..Len(q) : LowerChar(s[off + j]) = LowerChar(q[j])

Matches(a, q) ==
    ContainsIgnoringCase(a.label, q) \/ ContainsIgnoringCase(a.packageName, q)

\* items is the subsequence of as, in order, of the elements matching q.
IsMatchingSubsequence(items, as, q) ==
    LET idx == {i \in DOMAIN as : Matches(as[i], q)}
    IN  /\ Len(items) = Cardinality(idx)
        /\ \A i \in idx : items[Cardinality({j \in idx : j <= i})] = as[i]

IsSortedByLabel(as) ==
    \A i, j \in DOMAIN as : i < j => localeCompare(as[i].label, as[j].label) <= 0

----------------------------------------------------------------------------
(* C1: a toggle cancels the pending debounce timer and starts a new 500 ms *)
(* one without issuing a call, and every burst of toggles with no timer    *)
(* expiry in between yields exactly one setAllowedApps call, issued after  *)
(* the burst: the calls issued, plus one for a burst still waiting for its *)
(* timer, always number the bursts begun.                                  *)
C1_Debounced ==
    /\ [](Len(calls) + (IF timers = {} THEN 0 ELSE 1) = nBursts)
    /\ [][nToggles' # nToggles =>
            /\ calls' = calls
            /\ \E t \in timers' :
                  /\ timers' = {t}
                  /\ t \notin timers
                  /\ t.delay = DebounceMs]_vars

C1_Witness ==
    nToggles >= 2 /\ nBursts = 1 /\ Len(calls) = 1 /\ timers = {}

(* C2: every timer expiry passes to setAllowedApps the list of selectedApps *)
(* as it is when the timer fires, and the event dispatched for that expiry  *)
(* carries the list that was passed, whatever selectedApps has become.      *)
C2_CallAndEventCarryFiredSelection ==
    /\ [](/\ Len(events) = Len(settleLog)
          /\ \A i \in DOMAIN events : events[i].packages = calls[settleLog[i]])
    /\ [][Len(calls') # Len(calls) => calls' = Append(calls, selectedApps)]_vars

C2_Witness ==
    /\ events # <<>>
    /\ Last(events).packages = <<>>
    /\ selectedApps # <<>>
    /\ nToggles >= 2

(* C3 as stated: once no timer is pending (so that nothing more will be    *)
(* issued unless a toggle follows), a setAllowedApps call has been issued  *)
(* and the latest one carries the current selection, after any number of   *)
(* toggles, none included.                                                 *)
C3_Original ==
    (pc = "ready" /\ timers = {}) => Persisted

(* C3 amended: after one or more toggles, a state with no timer pending is *)
(* eventually reached, and in every such state the latest setAllowedApps   *)
(* call carries the current selection.                                     *)
C3_EventuallyPersisted ==
    /\ []((nToggles >= 1 /\ timers = {}) => Persisted)
    /\ ((nToggles >= 1) ~> (timers = {} /\ Persisted))

C3_Witness ==
    /\ nToggles >= 2
    /\ Len(calls) >= 2
    /\ timers = {}
    /\ Persisted
    /\ selectedApps # NewSet(initialSelectedApps)

(* C4: toggleApp(p) flips the membership of p in selectedApps, keeps the   *)
(* membership of every other package, the app list, the search query and   *)
(* the loading flag, and a second toggleApp(p) right after the first gives *)
(* back the set of packages selected before the first.                     *)
C4_ToggleFlips ==
    [][nToggles' # nToggles =>
         LET p == lastToggle'.pkg
         IN  /\ (p \in SetOf(selectedApps')) # (p \in SetOf(selectedApps))
             /\ SetOf(selectedApps') \ {p} = SetOf(selectedApps) \ {p}
             /\ apps' = apps
             /\ searchQuery' = searchQuery
             /\ loading' = loading
             /\ (nToggles >= 1 /\ lastToggle.pkg = p)
                   => SetOf(selectedApps') = SetOf(lastToggle.before)]_vars

C4_Witness ==
    /\ nToggles = 2
    /\ lastToggle.pkg \in SetOf(selectedApps)
    /\ SetOf(selectedApps) = SetOf(initialSelectedApps)
    /\ lastToggle.before = <<>>

(* C5: once loading is false the rendered list is the subsequence of the   *)
(* label-sorted app list, in order, of the apps whose label or package     *)
(* name contains the query ignoring case, the whole list for the empty     *)
(* query; a change of the query changes neither selectedApps nor the       *)
(* timers nor the calls.                                                   *)
C5_RenderedListIsFilter ==
    /\ [](~loading =>
            /\ render.view = "list"
            /\ IsSortedByLabel(apps)
            /\ IsMatchingSubsequence(render.items, apps, searchQuery)
            /\ (searchQuery = <<>> => render.items = apps))
    /\ [][searchQuery' # searchQuery =>
            /\ selectedApps' = selectedApps
            /\ timers' = timers
            /\ applyDebounceTimer' = applyDebounceTimer
            /\ calls' = calls
            /\ inflight' = inflight]_vars

C5_Witness ==
    /\ ~loading
    /\ searchQuery = <<"A">>
    /\ Len(apps) = 2
    /\ Len(render.items) = 1
    /\ ~ContainsIgnoringCase(render.items[1].label, searchQuery)
    /\ timers # {}

(* C6: when a setAllowedApps call fails, the step that handles the failure *)
(* dispatches one event with the list that was passed to the call, leaves  *)
(* selectedApps alone, issues no call and starts no timer; every settled   *)
(* call has exactly one event.                                             *)
C6_FailureStillAnnounced ==
    /\ [](Len(events) = Len(settleLog))
    /\ [][(settleLog' # settleLog /\ consoleErrors' # consoleErrors) =>
            /\ events' = Append(events, [packages |-> calls[Last(settleLog')]])
            /\ selectedApps' = selectedApps
            /\ calls' = calls
            /\ timers' = timers
            /\ inflight' \subseteq inflight]_vars

C6_Witness ==
    /\ CallFailures >= 1
    /\ Len(events) = CallFailures
    /\ Quiescent
    /\ selectedApps # NewSet(initialSelectedApps)

(* C7: while the app list is being requested selectedApps holds exactly    *)
(* the packages of initialSelectedApps; once the request has settled       *)
(* loading is false, the app list is the returned list sorted by label on  *)
(* success and empty on failure, and the settling leaves selectedApps as   *)
(* it was.                                                                 *)
C7_ConnectAndLoad ==
    /\ [](pc = "loading" =>
            /\ SetOf(selectedApps) = SetOf(initialSelectedApps)
            /\ NoDup(selectedApps)
            /\ loading)
    /\ [](pc = "ready" =>
            /\ ~loading
            /\ (LoadFailed => apps = <<>>)
            /\ (loadReply.kind = "json" =>
                   /\ IsSortedByLabel(apps)
                   /\ Len(apps) = Len(loadReply.list)
                   /\ SetOf(apps) = SetOf(loadReply.list)))
    /\ [][pc' # pc /\ pc' = "ready" => selectedApps' = selectedApps]_vars

C7_Witness ==
    /\ pc = "ready"
    /\ loadReply.kind = "json"
    /\ apps # loadReply.list
    /\ Len(apps) = 2
    /\ selectedApps # <<>>
    /\ nToggles = 0

(* C8 as stated: events are dispatched in the order in which their calls   *)
(* were issued, and once all calls have settled and no timer is pending    *)
(* the latest event carries the current selection.                         *)
C8_Original ==
    /\ InIssueOrder(settleLog)
    /\ (Quiescent /\ events # <<>>) => Last(events).packages = selectedApps

(* C8 amended: events are dispatched in the order in which their calls     *)
(* settle; whenever the calls have settled in the order of their issue,    *)
(* all of them have settled and no timer is pending, the latest event      *)
(* carries the current selection.                                          *)
C8_EventsInSettleOrder ==
    /\ Len(events) = Len(settleLog)
    /\ \A i \in DOMAIN events : events[i].packages = calls[settleLog[i]]
    /\ (InIssueOrder(settleLog) /\ Quiescent /\ events # <<>>)
          => Last(events).packages = selectedApps

C8_Witness ==
    /\ Len(events) >= 2
    /\ InIssueOrder(settleLog)
    /\ Quiescent
    /\ events[1].packages # selectedApps
    /\ CallFailures >= 1

(* C9: at most one debounce timer is pending, no timer exists and no call  *)
(* has been issued while loading is true or before the first toggle, and   *)
(* the calls never outnumber the toggles.                                  *)
C9_CallsOnlyFromToggles ==
    /\ Cardinality(timers) <= 1
    /\ (loading \/ nToggles = 0) => (timers = {} /\ calls = <<>>)
    /\ Len(calls) <= nToggles

C9_Witness ==
    /\ initialSelectedApps # <<>>
    /\ nToggles = 2
    /\ Len(calls) = 1
    /\ inflight # {}
    /\ Cardinality(timers) = 1

(* C10: only packages of the loaded app list are toggled, so an initially  *)
(* selected package that is not in the loaded list stays selected and is   *)
(* in every list passed to setAllowedApps, and selectedApps is a subset of *)
(* initialSelectedApps united with the loaded package names.               *)
C10_ForeignPackagesStay ==
    /\ [](SetOf(selectedApps) \subseteq SetOf(initialSelectedApps) \cup Pkgs(apps))
    /\ [](pc = "ready" =>
            \A p \in SetOf(initialSelectedApps) \ Pkgs(apps) :
                /\ p \in SetOf(selectedApps)
                /\ \A k \in DOMAIN calls : p \in SetOf(calls[k]))
    /\ [][nToggles' # nToggles => lastToggle'.pkg \in Pkgs(apps)]_vars

C10_Witness ==
    /\ ForeignPackage \in SetOf(selectedApps)
    /\ ForeignPackage \notin Pkgs(apps)
    /\ apps # <<>>
    /\ Len(calls) >= 2
    /\ nToggles >= 2
====
